---- MODULE Spec2Model ----
(***************************************************************************)
(* Model of the radio-ID handling of anytone-cli:                          *)
(*   src/anytone_cli/radio_ids.py  (buffer based library functions)        *)
(*   src/anytone_cli/codeplug.py   (file based functions used by the CLI)  *)
(* A codeplug is a byte sequence.  Offsets are 0-based as in the source;   *)
(* the TLA+ sequence holding the bytes is 1-based, so the byte at offset   *)
(* o is data[o + 1].                                                       *)
(*                                                                         *)
(* Spec     : calls of the locator, the read functions and the two update  *)
(*            functions, each one step, on a bounded set of codeplugs.     *)
(* SpecWalk : extract_radio_ids with its loop taken one iteration per      *)
(*            step, on every short byte sequence over two byte values.     *)
(***************************************************************************)
EXTENDS Integers, Sequences, FiniteSets

(***************************************************************************)
(* Format constants                                                        *)
(***************************************************************************)
RADIO_ID_SECTION_START ==
    <<70, 79, 32, 66,
      0, 0, 0, 0, 0, 0, 0, 0, 0, 0, 0, 0, 0, 0,
      0, 0, 0, 0, 0, 0, 0, 0, 0, 0, 0, 0, 0, 0,
      1>>

RADIO_ID_SECTION_END == <<0, 1, 0, 4, 0, 0, 1, 0, 2, 0, 3>>

\* 0xFFFFFF, the largest radio ID update_radio_id accepts
MaxRadioId == 16777215

\* read_codeplug refuses files shorter than this
MinFileSize == 16

\* the read walk and the write walk start 2 bytes into the section
FirstIdOffset == 2

(***************************************************************************)
(* Python primitives on bytes / bytearray                                  *)
(***************************************************************************)
Min(a, b) == IF a <= b THEN a ELSE b

Max(a, b) == IF a >= b THEN a ELSE b

\* data[a:b]
Slice(data, a, b) ==
    LET lo == Min(Max(a, 0), Len(data))
        hi == Min(Max(b, 0), Len(data))
    IN  IF hi <= lo THEN <<>> ELSE SubSeq(data, lo + 1, hi)

\* data[a:b] = new   (bytearray slice assignment; may change the length)
SliceAssign(data, a, b, new) ==
    LET lo == Min(Max(a, 0), Len(data))
        hi == Max(Min(Max(b, 0), Len(data)), lo)
    IN  SubSeq(data, 1, lo) \o new \o SubSeq(data, hi + 1, Len(data))

\* sub occurs in data at offset i (i + len(sub) <= len(data))
MatchAt(data, sub, i) == SubSeq(data, i + 1, i + Len(sub)) = sub

\* data.find(sub, from, to): the lowest offset i with from <= i and
\* i + len(sub) <= to at which sub occurs, or -1
Find(data, sub, from, to) ==
    LET last == Min(to, Len(data)) - Len(sub)
        hits == { i \in Max(from, 0)..last : MatchAt(data, sub, i) }
    IN  IF hits = {} THEN -1
        ELSE CHOOSE i \in hits : \A j \in hits : i <= j

(***************************************************************************)
(* Field codec                                                             *)
(***************************************************************************)
get_uint24(data, offset) ==
    data[offset + 1] + data[offset + 2] * 256 + data[offset + 3] * 65536

set_uint24(value) ==
    << value % 256, (value \div 256) % 256, (value \div 65536) % 256 >>

(***************************************************************************)
(* Section locator                                                         *)
(***************************************************************************)
find_radio_id_section(data) ==
    LET section_start == Find(data, RADIO_ID_SECTION_START, 0, Len(data))
                           + Len(RADIO_ID_SECTION_START)
        section_end   == Find(data, RADIO_ID_SECTION_END, 0, Len(data))
    IN  IF section_start <= Len(RADIO_ID_SECTION_START) \/ section_end = -1
        THEN [err |-> "SectionNotFound", start |-> -1, end |-> -1]
        ELSE [err |-> "ok", start |-> section_start, end |-> section_end]

(***************************************************************************)
(* Read walk                                                               *)
(***************************************************************************)
\* the loop condition of extract_radio_ids
WalkGuard(data, pos) == pos + 2 < Len(data)

\* NextZero with the search started at the cursor instead of after the field
NextZeroFromCursor(data, pos) == Find(data, <<0>>, pos, Len(data))

\* where the read walk looks for the separator after the field at pos
NextZero(data, pos) == Find(data, <<0>>, pos + 3, Len(data))

\* one iteration of the loop body, entered with the guard true
WalkIter(data, pos, radio_ids) ==
    LET radio_id  == get_uint24(data, pos)
        ids       == IF radio_id > 0 THEN Append(radio_ids, radio_id) ELSE radio_ids
        next_zero == NextZero(data, pos)
    IN  [radio_ids |-> ids,
         brk       |-> (next_zero = -1),
         pos       |-> IF next_zero = -1 THEN pos ELSE next_zero + 2]

RECURSIVE ExtractFrom(_, _, _, _)
ExtractFrom(data, pos, radio_ids, cursors) ==
    IF ~WalkGuard(data, pos)
    THEN [radio_ids |-> radio_ids, cursors |-> cursors]
    ELSE LET it == WalkIter(data, pos, radio_ids)
         IN  IF it.brk
             THEN [radio_ids |-> it.radio_ids, cursors |-> Append(cursors, pos)]
             ELSE ExtractFrom(data, it.pos, it.radio_ids, Append(cursors, pos))

\* radio_ids: the list returned; cursors: the offsets at which a value was decoded
extract_radio_ids(data) == ExtractFrom(data, FirstIdOffset, <<>>, <<>>)

(***************************************************************************)
(* Write walk and update                                                   *)
(***************************************************************************)
\* WriteGuard with the counter compared one too low
WriteGuardOffByOne(data, pos, found_index, count) ==
    pos + 2 < Len(data) /\ found_index < count - 1

\* the loop condition of the write loop: the cursor is guarded by the length
\* of the whole buffer, the counter by the number of decoded radio IDs
WriteGuard(data, pos, found_index, count) ==
    pos + 2 < Len(data) /\ found_index < count

\* where the write walk looks for the separator after the field at pos
WriteNextZero(data, pos, section_end) == Find(data, <<0>>, pos + 3, section_end)

\* Overwrite with a 2-byte slice as the target of the 3 bytes
OverwriteShort(data, pos, radio_id) ==
    SliceAssign(data, pos, pos + 2, set_uint24(radio_id))

\* data[pos:pos+3] = set_uint24(radio_id)
Overwrite(data, pos, radio_id) == SliceAssign(data, pos, pos + 3, set_uint24(radio_id))

\* the write loop; wpos is the offset overwritten, -1 when the loop left
\* without overwriting
RECURSIVE WriteLoop(_, _, _, _, _, _, _)
WriteLoop(data, section_end, count, target, radio_id, pos, found_index) ==
    IF ~WriteGuard(data, pos, found_index, count)
    THEN [data |-> data, wpos |-> -1]
    ELSE IF found_index = target
         THEN [data |-> Overwrite(data, pos, radio_id), wpos |-> pos]
         ELSE LET next_zero == WriteNextZero(data, pos, section_end)
              IN  IF next_zero = -1
                  THEN [data |-> data, wpos |-> -1]
                  ELSE WriteLoop(data, section_end, count, target, radio_id,
                                 next_zero + 2, found_index + 1)

\* FirstWritePos taken relative to the section, as the read walk's cursor is
FirstWritePosRelative(section_start) == FirstIdOffset

\* where the write walk starts: pos = section_start + 2
FirstWritePos(section_start) == section_start + FirstIdOffset

\* the value check both update functions start with (the values asked for
\* are integers, so isinstance(radio_id, int) holds)
ValidRadioId(radio_id) == radio_id >= 1 /\ radio_id <= MaxRadioId

\* the body both update functions share once the value is accepted:
\* locate the section, decode the IDs, check the index, run the write loop
PatchRadioId(data, zero_based_index, radio_id) ==
    LET sec == find_radio_id_section(data)
    IN  IF sec.err # "ok"
        THEN [err |-> sec.err, data |-> data, wpos |-> -1]
        ELSE LET radio_id_data == Slice(data, sec.start, sec.end)
                 radio_ids     == extract_radio_ids(radio_id_data).radio_ids
             IN  IF zero_based_index < 0 \/ zero_based_index >= Len(radio_ids)
                 THEN [err |-> "IndexOutOfRange", data |-> data, wpos |-> -1]
                 ELSE LET w == WriteLoop(data, sec.end, Len(radio_ids),
                                         zero_based_index, radio_id,
                                         FirstWritePos(sec.start), 0)
                      IN  [err |-> "ok", data |-> w.data, wpos |-> w.wpos]

\* update_radio_id with the value checked after the bytearray was patched
update_radio_id_validate_late(data, index, radio_id) ==
    LET r == PatchRadioId(data, index - 1, radio_id)
    IN  IF ~ValidRadioId(radio_id)
        THEN [err |-> "InvalidRadioId", data |-> r.data, wpos |-> r.wpos]
        ELSE r

\* radio_ids.update_radio_id(data, index, radio_id): index is 1-based; data is
\* the caller's bytearray, changed in place; the result's data is its content
\* when the call ends
update_radio_id(data, index, radio_id) ==
    IF ~ValidRadioId(radio_id)
    THEN [err |-> "InvalidRadioId", data |-> data, wpos |-> -1]
    ELSE PatchRadioId(data, index - 1, radio_id)

\* codeplug.update_radio_id(codeplug_file, index, radio_id): index is 0-based;
\* the result's data is the content of the file when the call ends
codeplug_update_radio_id(file_exists, file, index, radio_id) ==
    IF ~file_exists
    THEN [err |-> "FileNotFound", data |-> file, wpos |-> -1]
    ELSE IF ~ValidRadioId(radio_id)
         THEN [err |-> "InvalidRadioId", data |-> file, wpos |-> -1]
         ELSE PatchRadioId(file, index, radio_id)

(***************************************************************************)
(* Read path                                                               *)
(***************************************************************************)
MAGIC_D878 == <<68, 56, 55, 56>>

MAGIC_D578 == <<68, 53, 55, 56>>

MAGIC_D878UVII == <<68, 56, 55, 56, 85, 86, 73, 73>>

\* the model name read_codeplug derives from the magic bytes
SniffModel(data) ==
    LET m4 == IF Slice(data, 0, 4) = MAGIC_D878 THEN "Anytone AT-D878UV"
              ELSE IF Slice(data, 0, 4) = MAGIC_D578 THEN "Anytone AT-D578UV"
              ELSE "Unknown Anytone Model"
    IN  IF Len(data) >= 17 /\ Slice(data, 9, 17) = MAGIC_D878UVII
        THEN "Anytone AT-D878UVII"
        ELSE m4

\* the model of a call that raised: no codeplug_info reaches the caller
NoModel == ""

\* read_codeplug(filename): err "ok" and the returned codeplug_info, or the
\* error raised, in which case nothing is returned
read_codeplug(file_exists, data) ==
    IF ~file_exists
    THEN [err |-> "FileNotFound", model |-> NoModel, radio_ids |-> <<>>, cursors |-> <<>>,
          start |-> -1, end |-> -1]
    ELSE IF Len(data) < MinFileSize
    THEN [err |-> "FileTooSmall", model |-> NoModel, radio_ids |-> <<>>, cursors |-> <<>>,
          start |-> -1, end |-> -1]
    ELSE LET model == SniffModel(data)
             sec   == find_radio_id_section(data)
         IN  IF sec.err # "ok"
             THEN [err |-> sec.err, model |-> NoModel, radio_ids |-> <<>>,
                   cursors |-> <<>>, start |-> -1, end |-> -1]
             ELSE LET x == extract_radio_ids(Slice(data, sec.start, sec.end))
                  IN  [err |-> "ok", model |-> model, radio_ids |-> x.radio_ids,
                       cursors |-> x.cursors, start |-> sec.start, end |-> sec.end]

\* display_info(filename): what it prints: the report built from the
\* codeplug_info read_codeplug returned (err "ok"), or only the message of the
\* CodeplugError it caught
display_info(file_exists, data) == read_codeplug(file_exists, data)

(***************************************************************************)
(* Inputs                                                                  *)
(***************************************************************************)
\* most records (field + gap) in a generated section
MaxRecords == 2

\* largest 0-based index an update is asked for
MaxIndex == 1

\* the 2 bytes in front of the first field
Headers == { <<0, 0>>, <<0, 4>> }

\* a 3-byte field: an empty slot, a radio ID
Fields == { <<0, 0, 0>>, <<0, 3, 5>> }

\* what follows a field: a separator and one byte, or one byte that is no
\* separator (the walk then takes its separator from the next record, or
\* finds none)
Gaps == { <<0, 2>>, <<7>> }

Records == { f \o g : f \in Fields, g \in Gaps }

RECURSIVE Bodies(_)
Bodies(n) ==
    IF n = 0 THEN { <<>> }
    ELSE { <<>> } \union { r \o b : r \in Records, b \in Bodies(n - 1) }

Sections == { h \o b : h \in Headers, b \in Bodies(MaxRecords) }

\* what precedes the start marker: nothing, a 4-byte magic, a 4-byte magic and
\* the 8-byte magic at offset 9, an end marker
Prefixes ==
    { <<>>,
      MAGIC_D878,
      MAGIC_D578 \o <<32, 32, 32, 32, 32>> \o MAGIC_D878UVII,
      RADIO_ID_SECTION_END }

Marker(present, m) == IF present THEN m ELSE <<>>

\* codeplugs with both markers after a 4-byte magic, one per section
Framed ==
    { MAGIC_D878 \o RADIO_ID_SECTION_START \o sec \o RADIO_ID_SECTION_END :
        sec \in Sections }

\* codeplugs with either marker present or absent after each prefix
Layouts ==
    { pre \o Marker(s, RADIO_ID_SECTION_START) \o sec \o Marker(e, RADIO_ID_SECTION_END) :
        pre \in Prefixes, s \in BOOLEAN, e \in BOOLEAN,
        sec \in { <<0, 0, 0, 3, 5, 0, 2>> } }

\* codeplugs whose end marker starts in the last 2 bytes of the start marker
Overlapping ==
    { pre \o RADIO_ID_SECTION_START \o Slice(RADIO_ID_SECTION_END, 2, 11) :
        pre \in Prefixes }

Codeplugs == Framed \union Layouts \union Overlapping

\* radio IDs asked for: 0 (below the range), one in the range, the largest in
\* the range, the first above it
Values == { 0, 65536, MaxRadioId, MaxRadioId + 1 }

\* 0-based positions asked for
Indexes == -1..MaxIndex

(***************************************************************************)
(* State                                                                   *)
(***************************************************************************)
VARIABLES
    data,       \* the codeplug: the content of the file, the caller's bytearray
    exists,     \* whether the codeplug file exists
    op,         \* the last call made
    index,      \* its index argument, as passed
    value,      \* its radio_id argument
    err,        \* "ok" or the error it raised
    before,     \* the codeplug when it was called
    model,      \* read: the model name that reached the caller
    radio_ids,  \* read: the radio IDs that reached the caller
    cursors,    \* read: the section offsets at which the walk decoded a value
    start,      \* locate, read: section start returned
    end,        \* locate, read: section end returned
    wpos,       \* update: the offset overwritten, -1 if none
    pc,         \* position in a call being stepped: "idle", "call", "loop", "return"
    pos         \* the cursor of the walk being stepped

vars == << data, exists, op, index, value, err, before, model, radio_ids, cursors,
           start, end, wpos, pc, pos >>

Init ==
    /\ \/ exists = TRUE /\ data \in Codeplugs
       \/ exists = FALSE /\ data = <<>>
    /\ op = "none" /\ index = 0 /\ value = 0 /\ err = "ok"
    /\ before = data /\ model = NoModel /\ radio_ids = <<>> /\ cursors = <<>>
    /\ start = -1 /\ end = -1 /\ wpos = -1
    /\ pc = "idle" /\ pos = 0

\* radio_ids.find_radio_id_section(data)
Locate ==
    \E r \in { find_radio_id_section(data) } :
        /\ op' = "find_radio_id_section"
        /\ err' = r.err /\ start' = r.start /\ end' = r.end
        /\ before' = data /\ index' = 0 /\ value' = 0
        /\ model' = NoModel /\ radio_ids' = <<>> /\ cursors' = <<>> /\ wpos' = -1
        /\ UNCHANGED << data, exists, pc, pos >>

\* codeplug.read_codeplug(filename)
Read ==
    \E r \in { read_codeplug(exists, data) } :
        /\ op' = "read_codeplug"
        /\ err' = r.err /\ model' = r.model /\ radio_ids' = r.radio_ids
        /\ cursors' = r.cursors /\ start' = r.start /\ end' = r.end
        /\ before' = data /\ index' = 0 /\ value' = 0 /\ wpos' = -1
        /\ UNCHANGED << data, exists, pc, pos >>

\* codeplug.display_info(filename)
Display ==
    \E r \in { display_info(exists, data) } :
        /\ op' = "display_info"
        /\ err' = r.err /\ model' = r.model /\ radio_ids' = r.radio_ids
        /\ cursors' = r.cursors /\ start' = r.start /\ end' = r.end
        /\ before' = data /\ index' = 0 /\ value' = 0 /\ wpos' = -1
        /\ UNCHANGED << data, exists, pc, pos >>

\* radio_ids.update_radio_id(data, i + 1, v)
UpdateBuffer(i, v) ==
    \E r \in { update_radio_id(data, i + 1, v) } :
        /\ op' = "update_radio_id"
        /\ index' = i + 1 /\ value' = v
        /\ err' = r.err /\ data' = r.data /\ wpos' = r.wpos
        /\ before' = data
        /\ model' = NoModel /\ radio_ids' = <<>> /\ cursors' = <<>>
        /\ start' = -1 /\ end' = -1
        /\ UNCHANGED << exists, pc, pos >>

\* codeplug.update_radio_id(codeplug_file, i, v)
UpdateFile(i, v) ==
    \E r \in { codeplug_update_radio_id(exists, data, i, v) } :
        /\ op' = "codeplug.update_radio_id"
        /\ index' = i /\ value' = v
        /\ err' = r.err /\ data' = r.data /\ wpos' = r.wpos
        /\ before' = data
        /\ model' = NoModel /\ radio_ids' = <<>> /\ cursors' = <<>>
        /\ start' = -1 /\ end' = -1
        /\ UNCHANGED << exists, pc, pos >>

Next ==
    \/ Locate
    \/ Read
    \/ Display
    \/ \E i \in Indexes, v \in Values : UpdateBuffer(i, v)
    \/ \E i \in Indexes, v \in Values : UpdateFile(i, v)

Spec == Init /\ [][Next]_vars

(***************************************************************************)
(* The read walk, one loop iteration per step                              *)
(***************************************************************************)
\* longest section the stepped walk is run on
MaxWalkLen == 12

\* a zero byte and a nonzero byte
WalkBytes == { 0, 7 }

\* every byte sequence over WalkBytes of length 0..MaxWalkLen
WalkInputs == UNION { [1..n -> WalkBytes] : n \in 0..MaxWalkLen }

\* extract_radio_ids(data) is about to be called
InitWalk ==
    /\ data \in WalkInputs /\ exists = TRUE
    /\ op = "extract_radio_ids" /\ index = 0 /\ value = 0 /\ err = "ok"
    /\ before = data /\ model = NoModel /\ radio_ids = <<>> /\ cursors = <<>>
    /\ start = -1 /\ end = -1 /\ wpos = -1
    /\ pc = "call" /\ pos = 0

\* radio_ids = [], pos = 2
WalkEnter ==
    /\ pc = "call"
    /\ pc' = "loop" /\ pos' = FirstIdOffset /\ radio_ids' = <<>> /\ cursors' = <<>>
    /\ UNCHANGED << data, exists, op, index, value, err, before, model, start, end, wpos >>

\* the loop condition holds: one iteration, ending in the break or a new cursor
WalkStep ==
    /\ pc = "loop" /\ WalkGuard(data, pos)
    /\ \E it \in { WalkIter(data, pos, radio_ids) } :
        /\ radio_ids' = it.radio_ids
        /\ cursors' = Append(cursors, pos)
        /\ pos' = it.pos
        /\ pc' = IF it.brk THEN "return" ELSE "loop"
    /\ UNCHANGED << data, exists, op, index, value, err, before, model, start, end, wpos >>

\* the loop condition fails: return radio_ids
WalkExit ==
    /\ pc = "loop" /\ ~WalkGuard(data, pos)
    /\ pc' = "return"
    /\ UNCHANGED << data, exists, op, index, value, err, before, model, radio_ids,
                    cursors, start, end, wpos, pos >>

NextWalk == WalkEnter \/ WalkStep \/ WalkExit

\* a call that has started keeps running: nothing suspends the loop
SpecWalk == InitWalk /\ [][NextWalk]_vars /\ WF_vars(NextWalk)

\* the stepped walk returns what the recursive definition computes
WalkAgrees ==
    pc = "return" =>
        /\ radio_ids = extract_radio_ids(data).radio_ids
        /\ cursors = extract_radio_ids(data).cursors

(***************************************************************************)
(* Properties                                                              *)
(***************************************************************************)
Updates == { "update_radio_id", "codeplug.update_radio_id" }

Reads == { "read_codeplug", "display_info" }

\* the 0-based index the last update was asked for
ZeroBased == IF op = "update_radio_id" THEN index - 1 ELSE index

\* the section bounds of the codeplug the last call was made on
SecBefore == find_radio_id_section(before)

\* what the read walk returns for the section of codeplug d (nothing when
\* the section is not located)
ReadWalk(d) ==
    LET sec == find_radio_id_section(d)
    IN  IF sec.err # "ok" THEN [radio_ids |-> <<>>, cursors |-> <<>>]
        ELSE extract_radio_ids(Slice(d, sec.start, sec.end))

\* C1: read-after-write.  After a successful update of index i to v the read
\* walk over the resulting codeplug returns a sequence of the same length as
\* before, with v at index i and every other element as it was.
C1_ReadAfterWrite ==
    (op \in Updates /\ err = "ok") =>
        LET old == ReadWalk(before).radio_ids
            new == ReadWalk(data).radio_ids
        IN  /\ Len(new) = Len(old)
            /\ \A j \in 1..Len(old) :
                 new[j] = IF j = ZeroBased + 1 THEN value ELSE old[j]

\* C2: frame of a write.  After a successful update the codeplug has the
\* length it had, and all bytes outside one 3-byte window p..p+2 are the
\* bytes it had.
C2_FrameOfWrite ==
    (op \in Updates /\ err = "ok") =>
        /\ Len(data) = Len(before)
        /\ \E p \in 0..Len(before) :
             \A o \in 0..(Len(before) - 1) :
                 (o < p \/ o > p + 2) => data[o + 1] = before[o + 1]

\* C2 witness: a successful update that changed the codeplug
C2_Witness == op \in Updates /\ err = "ok" /\ data # before

\* C3: the locator raises exactly when the start marker or the end marker
\* occurs nowhere in the buffer, and otherwise returns (first start marker
\* occurrence + 33, first end marker occurrence).
C3_LocatorContract ==
    (op = "find_radio_id_section") =>
        LET s == Find(data, RADIO_ID_SECTION_START, 0, Len(data))
            e == Find(data, RADIO_ID_SECTION_END, 0, Len(data))
        IN  IF s = -1 \/ e = -1
            THEN err = "SectionNotFound"
            ELSE err = "ok" /\ start = s + Len(RADIO_ID_SECTION_START) /\ end = e

\* C4: no partial write.  An update that ends in an error leaves the
\* codeplug (the caller's bytearray, the file) byte-identical.
C4_NoPartialWrite ==
    (op \in Updates /\ err # "ok") => data = before

\* C4 witness: an update of a codeplug that holds radio IDs was refused for
\* its index, the last check in front of the write loop
C4_Witness ==
    op \in Updates /\ err = "IndexOutOfRange" /\ ReadWalk(before).radio_ids # <<>>

\* C5: idempotence.  An update that succeeded, made again with the same
\* index and value, succeeds again and leaves the codeplug as it is.
C5_Idempotent ==
    [][ (op \in Updates /\ err = "ok"
            /\ op' = op /\ index' = index /\ value' = value)
        => (err' = "ok" /\ data' = data) ]_vars

\* C6: a read of a codeplug of at least 16 bytes without the start marker
\* reports the section as not found and still hands the model name derived
\* from the magic bytes to the caller.
C6_ModelSurvives ==
    (op \in Reads /\ exists /\ Len(data) >= MinFileSize
        /\ Find(data, RADIO_ID_SECTION_START, 0, Len(data)) = -1) =>
        (err = "SectionNotFound" /\ model = SniffModel(data))

\* C7: every pair the locator returns satisfies start <= end <= length.
C7_BoundsOrdered ==
    (op = "find_radio_id_section" /\ err = "ok") =>
        (start <= end /\ end <= Len(data))

\* C8: every offset at which the read walk decodes a value, and every offset
\* at which an update overwrites 3 bytes, lies in the section with its 3
\* bytes: start <= p and p + 3 <= end.
C8_FieldsInsideSection ==
    /\ (op \in Reads /\ err = "ok") =>
          \A k \in 1..Len(cursors) :
              start <= start + cursors[k] /\ start + cursors[k] + 3 <= end
    /\ (op \in Updates /\ wpos # -1) =>
          (SecBefore.start <= wpos /\ wpos + 3 <= SecBefore.end)

\* C8 witness: an update overwrote the last 3 bytes of the section, reached
\* through a separator
C8_Witness ==
    /\ op \in Updates /\ wpos # -1
    /\ wpos + 3 = SecBefore.end
    /\ wpos > FirstWritePos(SecBefore.start)

\* C9: the walk enters its loop with the cursor at 2; an iteration that does
\* not leave the loop found its separator at cursor + 3 or later and moves
\* the cursor by at least 5; the loop is left by the length guard or by a
\* missing separator; every call returns.
C9_WalkTerminates ==
    /\ [][ pc = "call" => (pc' = "loop" /\ pos' = 2) ]_vars
    /\ [][ (pc = "loop" /\ pc' = "loop") =>
              (NextZero(data, pos) >= pos + 3 /\ pos' >= pos + 5) ]_vars
    /\ [][ (pc = "loop" /\ pc' = "return") =>
              (~WalkGuard(data, pos) \/ NextZero(data, pos) = -1) ]_vars
    /\ (pc = "call" ~> pc = "return")

\* C9 witness: a walk returned after two iterations that moved the cursor
C9_Witness == pc = "return" /\ Len(cursors) >= 2 /\ pos > cursors[2]

\* C10: no silent no-op.  An update that returns normally has overwritten
\* 3 bytes: the codeplug holds the little-endian encoding of the new value
\* at one of the cursor positions of the walk over the codeplug it was given.
C10_NoSilentNoOp ==
    (op \in Updates /\ err = "ok") =>
        LET walked == ReadWalk(before).cursors
            first  == SecBefore.start
        IN  /\ wpos # -1
            /\ Slice(data, wpos, wpos + 3) = set_uint24(value)
            /\ \E k \in 1..Len(walked) : wpos = first + walked[k]

\* C10 witness: a successful update of an index the write loop reaches only
\* after moving its cursor
C10_Witness ==
    op \in Updates /\ err = "ok" /\ ZeroBased >= 1 /\ wpos > FirstWritePos(SecBefore.start)

====
